---- MODULE Spec2Model ----
(***************************************************************************)
(* Dependency graph analyzer (src/main.py): the edge-list loader, the      *)
(* depth-bounded tree renderer and the DFS loading-order resolver.         *)
(*                                                                         *)
(* A string is a sequence of one-character strings, so that strip, split,  *)
(* the substring test and the lexicographic sort are computed, not assumed. *)
(***************************************************************************)
EXTENDS Integers, Sequences, FiniteSets, TLC

VARIABLES
    graph,            \* Dict[str, Set[str]]: a function from names to sets of names
    line_kind,        \* loader: what kind of line was read last (history of the input)
    record_name,      \* loader: the text before the colon of the line read last, trimmed (history)
    nlines,           \* loader: number of lines read
    package,          \* args.package
    filter_str,       \* args.filter
    max_depth,        \* args.max_depth
    loading_order,    \* args.loading_order
    phase,            \* position of the running mode
    stack,            \* active calls of the recursive function, innermost last
    out,              \* renderer: the lines printed so far
    order,            \* resolver: loading_order
    visited,          \* resolver: visited
    recursion_stack,  \* resolver: recursion_stack
    cycles,           \* resolver: cycles
    report            \* resolver: which note run_loading_order_mode printed

vars == <<graph, line_kind, record_name, nlines, package, filter_str, max_depth, loading_order,
          phase, stack,
          out, order, visited, recursion_stack, cycles, report>>

---------------------------------------------------------------------------
(* Bounds of the model *)

MaxLineLen == 3
MaxLines == 2
MaxEdges == 4
MaxDepthArg == 3

\* default of --max-depth
DefaultMaxDepth == 5

---------------------------------------------------------------------------
(* Strings *)

Alphabet == {"a", " ", ":", "#"}

\* Code point of a character: Python compares strings by code point.
Ord(c) ==
    CASE c = " " -> 32
      [] c = "#" -> 35
      [] c = ":" -> 58
      [] c = "a" -> 97
      [] c = "b" -> 98
      [] c = "c" -> 99

IsSpace(c) == c = " "

\* s < t for Python strings
StrLess(s, t) ==
    \E k \in 1..(Len(t)) :
        /\ \A j \in 1..(k - 1) : j <= Len(s) /\ s[j] = t[j]
        /\ \/ k = Len(s) + 1
           \/ k <= Len(s) /\ Ord(s[k]) < Ord(t[k])

\* sub in s
Contains(s, sub) ==
    \E i \in 0..(Len(s) - Len(sub)) :
        \A j \in 1..Len(sub) : s[i + j] = sub[j]

\* sorted(S) for a set of strings
RECURSIVE Sorted(_)
Sorted(S) ==
    IF S = {} THEN <<>>
    ELSE LET m == CHOOSE x \in S : \A y \in S \ {x} : StrLess(x, y)
         IN <<m>> \o Sorted(S \ {m})

Range(s) == {s[i] : i \in 1..Len(s)}

\* s.strip()
RECURSIVE LStrip(_)
LStrip(s) == IF s # <<>> /\ IsSpace(Head(s)) THEN LStrip(Tail(s)) ELSE s

RECURSIVE RStrip(_)
RStrip(s) ==
    IF s # <<>> /\ IsSpace(s[Len(s)]) THEN RStrip(SubSeq(s, 1, Len(s) - 1)) ELSE s

Strip(s) == RStrip(LStrip(s))

\* s.startswith(p)
StartsWith(s, p) == Len(s) >= Len(p) /\ SubSeq(s, 1, Len(p)) = p

\* index of the first c in s (s contains c)
FirstIndex(s, c) == CHOOSE i \in 1..Len(s) : s[i] = c /\ \A j \in 1..(i - 1) : s[j] # c

\* s.split(':', 1) for s containing ':'
SplitColon(s) ==
    LET i == FirstIndex(s, ":")
    IN <<SubSeq(s, 1, i - 1), SubSeq(s, i + 1, Len(s))>>

\* s.split(): the maximal runs of non-whitespace characters, in order
RECURSIVE SplitWs(_)
SplitWs(s) ==
    LET t == LStrip(s)
    IN IF t = <<>> THEN <<>>
       ELSE LET ends == {i \in 1..Len(t) : i = Len(t) \/ IsSpace(t[i + 1])}
                e == CHOOSE i \in ends : \A j \in ends : i <= j
            IN <<SubSeq(t, 1, e)>> \o SplitWs(SubSeq(t, e + 1, Len(t)))

---------------------------------------------------------------------------
(* load_test_graph *)

EmptyGraph == [n \in {} |-> {}]

\* graph[k] = v on a dict
DictSet(g, k, v) == [n \in (DOMAIN g) \cup {k} |-> IF n = k THEN v ELSE g[n]]

\* for dep in dependencies: if dep not in graph: graph[dep] = set()
RegisterDepsFull(g, deps) ==
    [n \in (DOMAIN g) \cup Range(deps) |-> IF n \in DOMAIN g THEN g[n] ELSE {}]

RegisterDepsNone(g, deps) == g

RegisterDeps(g, deps) == RegisterDepsFull(g, deps)

\* the test that makes the loop skip a line (already stripped)
SkipLine(s) == s = <<>> \/ StartsWith(s, <<"#">>) \/ ~Contains(s, <<":">>)

\* the body of the loop over the lines of the file
LoadLine(g, raw) ==
    LET s == Strip(raw)
    IN IF SkipLine(s) THEN g
       ELSE LET parts == SplitColon(s)
                package_name == Strip(parts[1])
                dependencies == SplitWs(Strip(parts[2]))
                g1 == IF package_name \notin DOMAIN g
                      THEN DictSet(g, package_name, {}) ELSE g
                g2 == DictSet(g1, package_name, g1[package_name] \cup Range(dependencies))
            IN RegisterDeps(g2, dependencies)

\* What a line of the input file is, read off the raw line (not from the
\* loader's own test): blank, starting with '#', lacking a colon, or other.
LineKind(raw) ==
    IF \A i \in 1..Len(raw) : raw[i] = " " THEN "blank"
    ELSE IF raw[1] = "#" THEN "comment"
    ELSE IF \A i \in 1..Len(raw) : raw[i] # ":" THEN "nocolon"
    ELSE "other"

\* The text before the first colon of a raw line, without the spaces around
\* it (the empty string for a line of another kind).
RecordName(raw) ==
    IF LineKind(raw) # "other" THEN <<>>
    ELSE LET colon == CHOOSE i \in 1..Len(raw) :
                          raw[i] = ":" /\ \A j \in 1..(i - 1) : raw[j] # ":"
             inked == {i \in 1..(colon - 1) : raw[i] # " "}
         IN IF inked = {} THEN <<>>
            ELSE LET lo == CHOOSE i \in inked : \A j \in inked : i <= j
                     hi == CHOOSE i \in inked : \A j \in inked : j <= i
                 IN SubSeq(raw, lo, hi)

Lines == UNION {[1..n -> Alphabet] : n \in 0..MaxLineLen}

NoStr == <<>>

LoadInit ==
    /\ graph = EmptyGraph
    /\ line_kind = "none"
    /\ record_name = NoStr
    /\ nlines = 0
    /\ package = NoStr
    /\ filter_str = NoStr
    /\ max_depth = DefaultMaxDepth
    /\ loading_order = FALSE
    /\ phase = "load"
    /\ stack = <<>>
    /\ out = <<>>
    /\ order = <<>>
    /\ visited = {}
    /\ recursion_stack = {}
    /\ cycles = {}
    /\ report = "none"

ReadLine ==
    /\ phase = "load"
    /\ nlines < MaxLines
    /\ \E raw \in Lines :
        /\ line_kind' = LineKind(raw)
        /\ record_name' = RecordName(raw)
        /\ graph' = LoadLine(graph, raw)
    /\ nlines' = nlines + 1
    /\ UNCHANGED <<package, filter_str, max_depth, loading_order, phase, stack, out, order,
                   visited, recursion_stack, cycles, report>>

LoadNext == ReadLine

LoadSpec == LoadInit /\ [][LoadNext]_vars

---------------------------------------------------------------------------
(* The graphs handed to the two traversal modes *)

Names == {<<"a">>, <<"a", "b">>, <<"b">>, <<"c">>}

Filters == {<<>>, <<"a">>, <<"a", "b">>}

EdgeSets == {E \in SUBSET (Names \X Names) : Cardinality(E) <= MaxEdges}

\* The dict load_test_graph builds from records with the edges E; extra are
\* the names of records without dependencies.
GraphOf(E, extra) ==
    [n \in {e[1] : e \in E} \cup {e[2] : e \in E} \cup extra |->
        {e[2] : e \in {d \in E : d[1] = n}}]

\* filter_str and filter_str in node
IsFilteredSubstring(f, node) == f # <<>> /\ Contains(node, f)

IsFilteredEqual(f, node) == f # <<>> /\ node = f

IsFiltered(f, node) == IsFilteredSubstring(f, node)

\* graph.get(node, set())
GraphGet(g, node) == IF node \in DOMAIN g THEN g[node] ELSE {}

\* sorted([dep for dep in graph.get(node, set()) if not (filter_str and filter_str in dep)])
RECURSIVE SortedDesc(_)
SortedDesc(S) ==
    IF S = {} THEN <<>>
    ELSE LET m == CHOOSE x \in S : \A y \in S \ {x} : StrLess(y, x)
         IN <<m>> \o SortedDesc(S \ {m})

DependenciesAscending(g, node, f) == Sorted({dep \in GraphGet(g, node) : ~IsFiltered(f, dep)})

DependenciesDescending(g, node, f) == SortedDesc({dep \in GraphGet(g, node) : ~IsFiltered(f, dep)})

Dependencies(g, node, f) == DependenciesAscending(g, node, f)

\* A call of one of the recursive functions (or of run_test_mode's loop):
\* its arguments, its locals and where it stands.
Frame(fn, node, depth, prefix, path, parent_prefix) ==
    [fn |-> fn, node |-> node, pc |-> "enter", current_depth |-> depth,
     prefix |-> prefix, path |-> path, parent_prefix |-> parent_prefix,
     dependencies |-> <<>>, i |-> 1]

Top == stack[Len(stack)]

Pop == SubSeq(stack, 1, Len(stack) - 1)

SetTop(f) == [stack EXCEPT ![Len(stack)] = f]

\* Stand-in for the host's recursion limit; the traversals stay below it.
MaxCallDepth == Cardinality(Names) + 3

Init ==
    /\ \E E \in EdgeSets, r \in Names, present \in BOOLEAN :
        /\ graph = GraphOf(E, IF present THEN {r} ELSE {})
        /\ package = r
    /\ filter_str \in Filters
    /\ loading_order \in BOOLEAN
    /\ max_depth \in IF loading_order THEN {DefaultMaxDepth} ELSE 1..MaxDepthArg
    /\ line_kind = "none"
    /\ record_name = NoStr
    /\ nlines = 0
    /\ phase = "start"
    /\ stack = <<>>
    /\ out = <<>>
    /\ order = <<>>
    /\ visited = {}
    /\ recursion_stack = {}
    /\ cycles = {}
    /\ report = "none"

---------------------------------------------------------------------------
(* run_loading_order_mode and get_loading_order_dfs *)

\* which of the three early returns of get_loading_order_dfs is taken, if any
DfsBranchFull(node, f, rs, vis) ==
    IF IsFiltered(f, node) THEN "filtered"
    ELSE IF node \in rs THEN "cycle"
    ELSE IF node \in vis THEN "visited"
    ELSE "descend"

DfsBranchNoStackCheck(node, f, rs, vis) ==
    IF IsFiltered(f, node) THEN "filtered"
    ELSE IF node \in vis THEN "visited"
    ELSE "descend"

DfsBranchNoVisitedCheck(node, f, rs, vis) ==
    IF IsFiltered(f, node) THEN "filtered"
    ELSE IF node \in rs THEN "cycle"
    ELSE "descend"

DfsBranchVisitedIsCycle(node, f, rs, vis) ==
    IF IsFiltered(f, node) THEN "filtered"
    ELSE IF node \in rs \cup vis THEN "cycle"
    ELSE "descend"

DfsBranch(node, f, rs, vis) == DfsBranchFull(node, f, rs, vis)

\* order.append(start_node)
OrderAppendLast(ord, node) == Append(ord, node)

OrderAppendFirst(ord, node) == <<node>> \o ord

OrderAppend(ord, node) == OrderAppendLast(ord, node)

OrderRootNotFound ==
    /\ phase = "start" /\ loading_order
    /\ package \notin DOMAIN graph
    /\ phase' = "error"
    /\ UNCHANGED <<graph, line_kind, record_name, nlines, package, filter_str, max_depth,
                   loading_order, stack, out, order, visited, recursion_stack,
                   cycles, report>>

OrderStart ==
    /\ phase = "start" /\ loading_order
    /\ package \in DOMAIN graph
    /\ phase' = "dfs"
    /\ stack' = <<Frame("dfs", package, 0, <<>>, {}, <<>>)>>
    /\ order' = <<>>
    /\ visited' = {}
    /\ recursion_stack' = {}
    /\ cycles' = {}
    /\ UNCHANGED <<graph, line_kind, record_name, nlines, package, filter_str, max_depth,
                   loading_order, out, report>>

DfsAtEntry(branch) ==
    /\ phase = "dfs" /\ stack # <<>>
    /\ Top.pc = "enter"
    /\ DfsBranch(Top.node, filter_str, recursion_stack, visited) = branch

DfsFiltered ==
    /\ DfsAtEntry("filtered")
    /\ stack' = Pop
    /\ UNCHANGED <<graph, line_kind, record_name, nlines, package, filter_str, max_depth,
                   loading_order, phase, out, order, visited, recursion_stack,
                   cycles, report>>

DfsCycle ==
    /\ DfsAtEntry("cycle")
    /\ cycles' = cycles \cup {Top.node}
    /\ stack' = Pop
    /\ UNCHANGED <<graph, line_kind, record_name, nlines, package, filter_str, max_depth,
                   loading_order, phase, out, order, visited, recursion_stack,
                   report>>

DfsVisited ==
    /\ DfsAtEntry("visited")
    /\ stack' = Pop
    /\ UNCHANGED <<graph, line_kind, record_name, nlines, package, filter_str, max_depth,
                   loading_order, phase, out, order, visited, recursion_stack,
                   cycles, report>>

DfsDescend ==
    /\ DfsAtEntry("descend")
    /\ recursion_stack' = recursion_stack \cup {Top.node}
    /\ stack' = SetTop([Top EXCEPT !.pc = "loop",
                                   !.dependencies = Dependencies(graph, Top.node, filter_str),
                                   !.i = 1])
    /\ UNCHANGED <<graph, line_kind, record_name, nlines, package, filter_str, max_depth,
                   loading_order, phase, out, order, visited, cycles, report>>

DfsCall ==
    /\ phase = "dfs" /\ stack # <<>>
    /\ Top.pc = "loop"
    /\ Top.i <= Len(Top.dependencies)
    /\ Len(stack) < MaxCallDepth
    /\ stack' = Append(SetTop([Top EXCEPT !.i = @ + 1]),
                       Frame("dfs", Top.dependencies[Top.i], 0, <<>>, {}, <<>>))
    /\ UNCHANGED <<graph, line_kind, record_name, nlines, package, filter_str, max_depth,
                   loading_order, phase, out, order, visited, recursion_stack,
                   cycles, report>>

DfsFinish ==
    /\ phase = "dfs" /\ stack # <<>>
    /\ Top.pc = "loop"
    /\ Top.i > Len(Top.dependencies)
    /\ recursion_stack' = recursion_stack \ {Top.node}
    /\ visited' = visited \cup {Top.node}
    /\ order' = OrderAppend(order, Top.node)
    /\ stack' = Pop
    /\ UNCHANGED <<graph, line_kind, record_name, nlines, package, filter_str, max_depth,
                   loading_order, phase, out, cycles, report>>

\* the note printed after the order
OrderReport ==
    /\ phase = "dfs" /\ stack = <<>>
    /\ report' = IF cycles = {} THEN "no_cycle"
                 ELSE IF cycles \cap Range(order) # {} THEN "cycle_in_order"
                 ELSE "cycle_elsewhere"
    /\ phase' = "done"
    /\ UNCHANGED <<graph, line_kind, record_name, nlines, package, filter_str, max_depth,
                   loading_order, stack, out, order, visited, recursion_stack,
                   cycles>>

OrderNext ==
    \/ OrderRootNotFound
    \/ OrderStart
    \/ DfsFiltered
    \/ DfsCycle
    \/ DfsVisited
    \/ DfsDescend
    \/ DfsCall
    \/ DfsFinish
    \/ OrderReport

---------------------------------------------------------------------------
(* run_test_mode and _print_tree_recursive *)

\* The box-drawing segments, in ASCII: "+-- " is the last-child connector,
\* "|-- " the connector of the other children, "|   " and "    " the
\* continuation segments. A prefix is the sequence of its segments.
Connector(is_last) == IF is_last THEN "+-- " ELSE "|-- "

Continuation(is_last) == IF is_last THEN "    " ELSE "|   "

\* one printed line: print(f"{prefix}{node}", end="") and what follows it
OutLine(prefix, node, cyclic) == [prefix |-> prefix, node |-> node, cyclic |-> cyclic]

\* print(args.package): the root is printed without consulting the filter
RootLinesUnfiltered(f, pkg) == <<OutLine(<<>>, pkg, FALSE)>>

RootLinesFiltered(f, pkg) == IF IsFiltered(f, pkg) THEN <<>> ELSE <<OutLine(<<>>, pkg, FALSE)>>

RootLines(f, pkg) == RootLinesUnfiltered(f, pkg)

\* path = {args.package}
RootPathWithRoot(pkg) == {pkg}

RootPathEmpty(pkg) == {}

RootPath(pkg) == RootPathWithRoot(pkg)

\* current_depth >= max_depth
DepthReachedGeq(current_depth, md) == current_depth >= md

DepthReachedGt(current_depth, md) == current_depth > md

DepthReached(current_depth, md) == DepthReachedGeq(current_depth, md)

TreeRootNotFound ==
    /\ phase = "start" /\ ~loading_order
    /\ package \notin DOMAIN graph
    /\ phase' = "error"
    /\ UNCHANGED <<graph, line_kind, record_name, nlines, package, filter_str, max_depth,
                   loading_order, stack, out, order, visited, recursion_stack,
                   cycles, report>>

TreeStart ==
    /\ phase = "start" /\ ~loading_order
    /\ package \in DOMAIN graph
    /\ out' = RootLines(filter_str, package)
    /\ stack' = <<[Frame("run_test_mode", package, 0, <<>>, RootPath(package), <<>>)
                    EXCEPT !.pc = "loop",
                           !.dependencies = Dependencies(graph, package, filter_str)]>>
    /\ phase' = "tree"
    /\ UNCHANGED <<graph, line_kind, record_name, nlines, package, filter_str, max_depth,
                   loading_order, order, visited, recursion_stack, cycles, report>>

\* the first lines of _print_tree_recursive, up to path.add(node)
PrintEnter ==
    /\ phase = "tree" /\ stack # <<>>
    /\ Top.pc = "enter"
    /\ IF IsFiltered(filter_str, Top.node)
       THEN /\ stack' = Pop
            /\ out' = out
       ELSE IF Top.node \in Top.path
       THEN /\ out' = Append(out, OutLine(Top.prefix, Top.node, TRUE))
            /\ stack' = Pop
       ELSE /\ out' = Append(out, OutLine(Top.prefix, Top.node, FALSE))
            /\ IF DepthReached(Top.current_depth, max_depth)
               THEN stack' = Pop
               ELSE LET dependencies == Dependencies(graph, Top.node, filter_str)
                    IN IF dependencies = <<>>
                       THEN stack' = Pop
                       ELSE stack' = SetTop([Top EXCEPT !.pc = "loop",
                                                        !.dependencies = dependencies,
                                                        !.i = 1,
                                                        !.path = @ \cup {Top.node}])
    /\ UNCHANGED <<graph, line_kind, record_name, nlines, package, filter_str, max_depth,
                   loading_order, phase, order, visited, recursion_stack, cycles,
                   report>>

\* one round of the loop over the children, in run_test_mode or in
\* _print_tree_recursive: the call of _print_tree_recursive on the child
PrintCall ==
    /\ phase = "tree" /\ stack # <<>>
    /\ Top.pc = "loop"
    /\ Top.i <= Len(Top.dependencies)
    /\ Len(stack) < MaxCallDepth
    /\ LET is_last == Top.i = Len(Top.dependencies)
       IN stack' = Append(SetTop([Top EXCEPT !.i = @ + 1]),
                          Frame("_print_tree_recursive",
                                Top.dependencies[Top.i],
                                Top.current_depth + 1,
                                Top.parent_prefix \o <<Connector(is_last)>>,
                                Top.path,
                                Top.parent_prefix \o <<Continuation(is_last)>>))
    /\ UNCHANGED <<graph, line_kind, record_name, nlines, package, filter_str, max_depth,
                   loading_order, phase, out, order, visited, recursion_stack,
                   cycles, report>>

\* the loop over the children is over: the call returns
PrintReturn ==
    /\ phase = "tree" /\ stack # <<>>
    /\ Top.pc = "loop"
    /\ Top.i > Len(Top.dependencies)
    /\ stack' = Pop
    /\ phase' = IF Len(stack) = 1 THEN "done" ELSE phase
    /\ UNCHANGED <<graph, line_kind, record_name, nlines, package, filter_str, max_depth,
                   loading_order, out, order, visited, recursion_stack, cycles,
                   report>>

TreeNext ==
    \/ TreeRootNotFound
    \/ TreeStart
    \/ PrintEnter
    \/ PrintCall
    \/ PrintReturn

Next == OrderNext \/ TreeNext

Spec == Init /\ [][Next]_vars

\* The loading-order mode alone, with the scheduling of a sequential program:
\* a step that can be taken is taken.
OrderInit == Init /\ loading_order

FairOrderSpec == OrderInit /\ [][OrderNext]_vars /\ WF_vars(OrderNext)

---------------------------------------------------------------------------
(* Notions the properties are stated with *)

\* the name contains the (non-empty) filter substring
HasS(n) == filter_str # <<>> /\ Contains(n, filter_str)

\* the keys of the graph that do not contain the filter substring
Keep == {n \in DOMAIN graph : ~HasS(n)}

\* the nodes of ok reachable from the set seen through nodes of ok (seen included)
RECURSIVE ReachFrom(_, _, _)
ReachFrom(g, seen, ok) ==
    LET more == seen \cup {m \in ok : \E n \in seen : n \in DOMAIN g /\ m \in g[n]}
    IN IF more = seen THEN seen ELSE ReachFrom(g, more, ok)

\* the unfiltered nodes the resolver can reach from the start node
Live ==
    IF package \notin DOMAIN graph \/ HasS(package) THEN {}
    ELSE ReachFrom(graph, {package}, Keep)

\* the subgraph on the set U has a directed cycle (a self-loop included)
HasCycle(g, U) ==
    \E n \in U : \E m \in g[n] \cap U : n \in ReachFrom(g, {m}, U)

\* a set of names as the ascending sequence: x stands after the names below it
Ascending(S) ==
    [i \in 1..Cardinality(S) |->
        CHOOSE x \in S : Cardinality({y \in S : StrLess(y, x)}) = i - 1]

OrderDone == loading_order /\ phase = "done"

TreeDone == ~loading_order /\ phase = "done"

\* the diamond A: B C, B: D, C: D with A = a, B = ab, C = b, D = c
Diamond ==
    GraphOf({<<(<<"a">>), (<<"a", "b">>)>>, <<(<<"a">>), (<<"b">>)>>,
             <<(<<"a", "b">>), (<<"c">>)>>, <<(<<"b">>), (<<"c">>)>>}, {})

\* Reference: depth-first search over the unfiltered dependencies in ascending
\* order; post lists the nodes as they are left, hits the nodes met again
\* while still open.
RECURSIVE RefVisit(_, _), RefVisitAll(_, _)
RefVisit(n, st) ==
    IF n \in st.open THEN [st EXCEPT !.hits = @ \cup {n}]
    ELSE IF n \in Range(st.post) THEN st
    ELSE LET kids == Ascending({d \in graph[n] : ~HasS(d)})
             below == RefVisitAll(kids, [st EXCEPT !.open = @ \cup {n}])
         IN [below EXCEPT !.open = @ \ {n}, !.post = Append(@, n)]
RefVisitAll(kids, st) ==
    IF kids = <<>> THEN st ELSE RefVisitAll(Tail(kids), RefVisit(Head(kids), st))

RefOrder ==
    LET st0 == [open |-> {}, post |-> <<>>, hits |-> {}]
    IN IF HasS(package) THEN st0 ELSE RefVisit(package, st0)

---------------------------------------------------------------------------
(* Properties *)

\* C1: when get_loading_order_dfs has returned, for every edge A -> B with A
\* in order, neither name containing the filter substring and A not reachable
\* from B (through unfiltered nodes), B stands in order before A.
C1_DependenciesFirst ==
    OrderDone =>
        \A j \in 1..Len(order) : \A B \in graph[order[j]] :
            (~HasS(order[j]) /\ ~HasS(B) /\ order[j] \notin ReachFrom(graph, {B}, Keep))
                => \E i \in 1..(j - 1) : order[i] = B

\* an order with an acyclic edge, next to a cycle and a filtered node
C1_Witness ==
    /\ OrderDone /\ filter_str # <<>> /\ cycles # {} /\ Len(order) >= 3
    /\ \E A \in Range(order) : \E B \in graph[A] :
          ~HasS(B) /\ A \notin ReachFrom(graph, {B}, Keep)

\* C5: the depth of the active call chain of get_loading_order_dfs never
\* exceeds the number of unfiltered nodes plus one, and the traversal ends.
C5_BoundedAndTerminates ==
    /\ [](Len(stack) <= Cardinality(Keep) + 1)
    /\ <>(phase \in {"done", "error"})

\* the call chain at its bound, on a node met again on a cycle
C5_Witness ==
    /\ loading_order /\ phase = "dfs" /\ stack # <<>>
    /\ Len(stack) = Cardinality(Keep) + 1
    /\ Len(stack) >= 3
    /\ Top.pc = "enter" /\ Top.node \in recursion_stack

\* C7: the order (and the cycle set) are those of the reference depth-first
\* search, hence determined by graph, start node and filter; on the diamond
\* started at A the order is D, B, C, A.
C7_OrderIsReference ==
    OrderDone =>
        /\ order = RefOrder.post
        /\ cycles = RefOrder.hits
        /\ (graph = Diamond /\ package = <<"a">> /\ filter_str = <<>>)
              => order = <<(<<"c">>), (<<"a", "b">>), (<<"b">>), (<<"a">>)>>

C7_Witness ==
    /\ OrderDone /\ graph = Diamond /\ package = <<"a">> /\ filter_str = <<>>
    /\ Len(order) = 4

\* C9: when the top-level call has returned, order holds exactly the nodes
\* reachable from the start node through unfiltered nodes, each once,
\* recursion_stack is empty and visited is the set of elements of order;
\* recursion_stack and visited are disjoint throughout.
C9_OrderIsReachableSet ==
    /\ recursion_stack \cap visited = {}
    /\ ((loading_order /\ phase = "dfs" /\ stack = <<>>) \/ OrderDone) =>
        /\ Range(order) = Live
        /\ Len(order) = Cardinality(Live)
        /\ recursion_stack = {}
        /\ visited = Range(order)

\* an unfiltered node that only filtered nodes lead to stays out of order
C9_Witness ==
    /\ OrderDone /\ Len(order) >= 2
    /\ \E n \in Keep : n \notin Range(order)
                          /\ n \in ReachFrom(graph, {package}, DOMAIN graph)

\* C10: when the top-level call has returned, cycles is non-empty exactly when
\* the unfiltered subgraph reachable from the start node has a directed cycle,
\* every name in cycles is in order, and the note about a cycle in a
\* filtered-out or already processed path is not printed.
C10_CyclesReported ==
    OrderDone =>
        /\ (cycles # {}) <=> HasCycle(graph, Live)
        /\ cycles \subseteq Range(order)
        /\ report # "cycle_elsewhere"
        /\ (report = "cycle_in_order") <=> HasCycle(graph, Live)

C10_Witness ==
    OrderDone /\ report = "cycle_in_order" /\ Cardinality(cycles) >= 2

---------------------------------------------------------------------------
(* Properties of the rendered tree, read off the printed lines *)

\* the depth of a printed line: the number of segments of its prefix
Depth(i) == Len(out[i].prefix)

\* the line under which line i hangs: the last line before it one level up
Parent(i) ==
    CHOOSE p \in 1..(i - 1) :
        /\ Depth(p) = Depth(i) - 1
        /\ \A q \in (p + 1)..(i - 1) : Depth(q) >= Depth(i)

HasParent(i) == \E p \in 1..(i - 1) : Depth(p) = Depth(i) - 1

\* the names on the lines above line i on its branch, the root included
RECURSIVE AncestorNodes(_)
AncestorNodes(i) ==
    IF Depth(i) = 0 \/ ~HasParent(i) THEN {}
    ELSE {out[Parent(i)].node} \cup AncestorNodes(Parent(i))

\* line i has no child lines
IsLeafLine(i) == i = Len(out) \/ Depth(i + 1) <= Depth(i)

NodesOf(ls) == [i \in 1..Len(ls) |-> ls[i].node]

IsDepthOne(l) == Len(l.prefix) = 1

\* the 2-cycle A: B, B: A with A = a, B = b
TwoCycle == GraphOf({<<(<<"a">>), (<<"b">>)>>, <<(<<"b">>), (<<"a">>)>>}, {})

\* what the renderer can reach: the root, and below it only unfiltered nodes
TreeLive == ReachFrom(graph, {package}, Keep \cup {package})

\* C2 as stated: with a non-empty filter, no printed line and no entry of
\* order or cycles names a node containing the filter substring.
C2_NoFilteredNameAnywhere ==
    filter_str # <<>> =>
        /\ \A i \in 1..Len(out) : ~Contains(out[i].node, filter_str)
        /\ \A n \in Range(order) \cup cycles : ~Contains(n, filter_str)

\* C2, amended: with a non-empty filter, no printed line below the root line
\* and no entry of order or cycles names a node containing the filter
\* substring, and every node named is reached from the root through
\* unfiltered nodes (below the root, for the tree).
C2_NoFilteredNameBelowRoot ==
    filter_str # <<>> =>
        /\ \A i \in 2..Len(out) :
              ~Contains(out[i].node, filter_str) /\ out[i].node \in TreeLive
        /\ \A n \in Range(order) \cup cycles :
              ~Contains(n, filter_str) /\ n \in Live

\* a finished tree under a root whose own name contains the filter substring,
\* with a filtered child left out and a node behind it never printed
C2_Witness ==
    /\ TreeDone /\ HasS(package) /\ Len(out) >= 2
    /\ \E d \in graph[package] : HasS(d) /\ d # package
    /\ \E n \in Keep : n \in ReachFrom(graph, {package}, DOMAIN graph)
                          /\ \A i \in 1..Len(out) : out[i].node # n

\* C3: a line below the root is marked cyclic exactly when its name stands on
\* a line above it on its own branch (the root included); a marked line has no
\* child lines; a node already printed under a sibling is printed unmarked
\* (the diamond prints D twice, unmarked); the 2-cycle prints A, B, A (cyclic).
C3_CyclicIffAncestor ==
    /\ \A i \in 2..Len(out) :
          /\ HasParent(i)
          /\ out[i].node \in graph[out[Parent(i)].node]
          /\ out[i].cyclic <=> out[i].node \in AncestorNodes(i)
          /\ out[i].cyclic => IsLeafLine(i)
    /\ (TreeDone /\ graph = Diamond /\ package = <<"a">> /\ filter_str = <<>>
           /\ max_depth >= 2)
          => /\ NodesOf(out) = <<(<<"a">>), (<<"a", "b">>), (<<"c">>), (<<"b">>), (<<"c">>)>>
             /\ \A i \in 1..Len(out) : ~out[i].cyclic
    /\ (TreeDone /\ graph = TwoCycle /\ package = <<"a">> /\ filter_str = <<>>
           /\ max_depth >= 2)
          => out = <<OutLine(<<>>, <<"a">>, FALSE),
                     OutLine(<<"+-- ">>, <<"b">>, FALSE),
                     OutLine(<<"    ", "+-- ">>, <<"a">>, TRUE)>>

\* a tree with a marked line and with a node printed twice unmarked
C3_Witness ==
    /\ TreeDone
    /\ \E i \in 2..Len(out) : out[i].cyclic /\ out[i].node = package
    /\ \E j, k \in 2..Len(out) :
          j < k /\ out[j].node = out[k].node /\ ~out[j].cyclic /\ ~out[k].cyclic

\* C4: no line stands deeper than max_depth below the root and a line at
\* depth max_depth has no child lines; with max_depth = 1 and no filter the
\* output is the root and then its direct dependencies, ascending, as leaves.
C4_DepthBounded ==
    /\ \A i \in 1..Len(out) :
          /\ Depth(i) <= max_depth
          /\ Depth(i) = max_depth => IsLeafLine(i)
    /\ (TreeDone /\ max_depth = 1 /\ filter_str = <<>>)
          => /\ NodesOf(out) = <<package>> \o Ascending(graph[package])
             /\ \A i \in 2..Len(out) : Depth(i) = 1

\* a depth-1 tree whose children have dependencies of their own
C4_Witness ==
    /\ TreeDone /\ max_depth = 1 /\ filter_str = <<>> /\ Len(out) >= 3
    /\ \E d \in graph[package] : d # package /\ graph[d] # {}

\* C8: the root is printed first whatever the filter; its unfiltered direct
\* dependencies are the lines one level below it, ascending; the filter is
\* applied to the lines below the root only.
C8_RootNeverFiltered ==
    (~loading_order /\ phase \in {"tree", "done"}) =>
        /\ out # <<>>
        /\ out[1] = OutLine(<<>>, package, FALSE)
        /\ \A i \in 2..Len(out) : Depth(i) >= 1 /\ ~HasS(out[i].node)
        /\ TreeDone =>
              NodesOf(SelectSeq(out, IsDepthOne))
                 = Ascending({d \in graph[package] : ~HasS(d)})

\* a finished tree under a root containing the filter substring
C8_Witness ==
    /\ TreeDone /\ HasS(package)
    /\ Len(out) >= 3
    /\ \E d \in graph[package] : HasS(d)

---------------------------------------------------------------------------
(* load_test_graph *)

\* Section 3 invariant of the graph
DepsAreKeys(g) == \A n \in DOMAIN g : g[n] \subseteq DOMAIN g

\* C6: after every line read, every name in a dependency set is a key; a key
\* other than the line's record name keeps its set, or gets the empty set
\* when it is new; a blank line, a line starting with '#' and a line without
\* a colon leave the graph unchanged.
C6_LoaderKeepsGraphClosed ==
    [][/\ DepsAreKeys(graph')
       /\ line_kind' \in {"blank", "comment", "nocolon"} => graph' = graph
       /\ \A n \in DOMAIN graph' :
             n # record_name' =>
                graph'[n] = IF n \in DOMAIN graph THEN graph[n] ELSE {}]_vars

\* a comment line read after a record that named a dependency never seen as
\* a record name
C6_Witness ==
    /\ phase = "load" /\ nlines = 2 /\ line_kind = "comment"
    /\ \E m \in DOMAIN graph : \E n \in graph[m] : n # m /\ graph[n] = {}
====
